---- MODULE Spec2Model ----
(***************************************************************************)
(* A model of viroconcom's fitting module (src/viroconcom/fitting.py):     *)
(* the interval partitioner Fit._get_fitting_values, the per-dimension     *)
(* orchestrator Fit._get_distribution and the coordinator Fit.__init__.    *)
(*                                                                         *)
(* Samples.  The partitioner looks at a covariate only through the mask    *)
(* of each interval and the number of samples the mask selects, so the     *)
(* covariate column of a sample set is kept as a histogram: cov[v] is the  *)
(* number of samples whose covariate value is Val(v) = 2v, v in 0..MaxCov   *)
(* (even values, so that an odd interval width puts bounds between them).  *)
(* A sample subset is identified by the set of covariate values it was     *)
(* selected at.                                                            *)
(*                                                                         *)
(* Numbers.  Interval centers and bounds are rationals; they are kept      *)
(* exactly, as integers in units of 1/Den (floating point rounding of      *)
(* numpy's linspace/arange is not modelled).  None and 0 are both falsy    *)
(* where the code tests number_of_intervals and bin_width, and are both    *)
(* written 0; a dependency slot that is None is written NoDep.             *)
(***************************************************************************)
EXTENDS Integers, Sequences, FiniteSets, TLC

VARIABLES
    \* one call of Fit._get_fitting_values
    pc,                   \* "entry", "loop", "returned", "raised"
    cov,                  \* samples[dependency[index]], as a histogram
    dependency, index,    \* the arguments of the same names
    number_of_intervals, bin_width,
    fit_fails,            \* candidate intervals whose marginal fit raises ValueError
    orig_centers,         \* the array enumerate() iterates over
    name,                 \* the distribution family fitted in each interval
    i,                    \* the loop counter
    part                  \* interval_centers, dist_values, param_values,
                          \* multiple_basic_fit, warnings issued, error raised

VARIABLES
    \* one call of Fit._get_distribution
    opc,                  \* "idle", "called", "returned", "raised"
    dimension,            \* the argument of the same name
    kwargs,               \* the keyword arguments: a distribution description
    result,               \* the outcome of the call
    samples               \* the sample set, one histogram per dimension

orch_vars == <<opc, dimension, kwargs, result>>

VARIABLES
    \* one construction of Fit
    cpc,                  \* "idle", "call", "broadcast", "dispatch", "join",
                          \* "done", "raised"
    call_keywords,        \* the keyword arguments of the call Fit(...)
    dist_descriptions,    \* the caller's dictionaries, one per dimension
    multiple_results,     \* the AsyncResult of each dimension's task
    completion,           \* the dimensions, in the order their tasks ended
    join_i,               \* the position of the join loop (i, line 434)
    distributions, dependencies,
    multiple_fit_inspection_data,
    mul_var_dist,         \* the attribute, once assigned
    cerr                  \* the error the constructor raised

coord_vars == <<cpc, call_keywords, dist_descriptions, multiple_results, completion,
                join_i, distributions, dependencies, multiple_fit_inspection_data,
                mul_var_dist, cerr>>

part_vars == <<pc, cov, dependency, index, number_of_intervals, bin_width,
               fit_fails, orig_centers, name, i, part>>

\* ------------------------------------------------------------- bounds
MaxCov == 5          \* covariate values are Val(0)..Val(MaxCov)
MaxIntervals == 4    \* number_of_intervals is drawn from 0..MaxIntervals
MaxWidth == 4        \* bin_width is drawn from 0..MaxWidth
MaxFails == 1        \* at most this many per-interval fits raise ValueError
NDim == 2            \* dimensions are 0..NDim-1

\* ---------------------------------------------------- program constants
MIN_DATA_POINTS_FOR_FIT == 10
MIN_INTERVALS == 3
NoDep == 0 - 1

\* numbers of samples a covariate value may carry
Counts == {0, 5, 10}

Slots == 1..3        \* (shape, loc, scale); slot s is the code's index s-1

\* ------------------------------------------------------------ helpers
RECURSIVE SumTo(_, _)
SumTo(f, n) == IF n < 0 THEN 0 ELSE f[n] + SumTo(f, n - 1)

CeilDiv(a, b) == (a + b - 1) \div b

\* the covariate value of the samples counted in h[v]
Val(v) == 2 * v

\* max(samples[dependency[index]])
MaxOf(h) == Val(CHOOSE v \in DOMAIN h :
                   h[v] > 0 /\ \A u \in DOMAIN h : h[u] > 0 => u <= v)

\* ------------------------------------------- Fit._get_fitting_values
\* the unit of the exact representation: positions are multiples of 1/Den
Den(n, w) ==
    IF n # 0 THEN 2 * n ELSE 2

\* 0.5 * interval_width, in units of 1/Den
HalfWidth(M, n, w) ==
    IF n # 0 THEN M ELSE w

\* np.linspace(0, M, num=n, endpoint=False, retstep=True), centers += 0.5 * step
LinspaceCenters(M, n) == [k \in 1..n |-> (2 * k - 1) * M]

\* a slip: the number of intervals of width W needed to reach M
ArangeLenToMax(M, W) == CeilDiv(M, W)

\* len(np.arange(start, stop, step)) = ceil((stop - start) / step), at least 0
ArangeLen(M, W) == IF 2 * M > W THEN CeilDiv(2 * M - W, 2 * W) ELSE 0

\* np.arange(0.5 * W, M, W)
ArangeCenters(M, W) == [k \in 1..ArangeLen(M, W) |-> (2 * k - 1) * W]

\* lines 594-600: the candidate centers
CandidateCenters(M, n, w) ==
    IF n # 0 THEN LinspaceCenters(M, n)
    ELSE ArangeCenters(M, w)

\* a slip: the upper bound taken inclusive
InIntervalClosed(x, step, half, den) == step - half <= x * den /\ x * den <= step + half

\* line 619: step - 0.5 * interval_width <= x < step + 0.5 * interval_width
InInterval(x, step, half, den) == step - half <= x * den /\ x * den < step + half

\* line 620: fitting_values = sorted_samples[mask, 0], as the set of covariate
\* values the selected samples have
Mask(h, step, half, den) ==
    {Val(v) : v \in {u \in DOMAIN h : h[u] > 0 /\ InInterval(Val(u), step, half, den)}}

\* len(fitting_values)
MaskLen(h, step, half, den) ==
    SumTo([v \in DOMAIN h |-> IF InInterval(Val(v), step, half, den) THEN h[v] ELSE 0],
          MaxCov)

\* line 621
EnoughData(n) == n >= MIN_DATA_POINTS_FOR_FIT

\* np.delete(arr, i) for an int i, 0 <= i < len(arr)
NpDelete(arr, k0) == [k \in 1..(Len(arr) - 1) |-> IF k <= k0 THEN arr[k] ELSE arr[k + 1]]

\* ------------------------------------------------ Fit._fit_distribution
\* line 479: name[:-2] == 'Lognormal', among the names the model draws
LognormalLike(nm) == nm \in {"Lognormal_1", "Lognormal_2", "Lognormal_3"}

\* lines 473-487: the outcome of a marginal fit.  A name no branch matches
\* leaves params unbound, and line 487 raises UnboundLocalError; ok = FALSE is
\* the fitting library rejecting the data with a ValueError.
FitDistribution(nm, ok) ==
    IF nm \in {"Weibull", "Normal"} \/ LognormalLike(nm)
    THEN IF ok THEN "none" ELSE "ValueError"
    ELSE IF nm = "KernelDensity" THEN (IF ok THEN "none" ELSE "ValueError")
    ELSE "UnboundLocalError"

\* BasicFit(*current_params, fitting_values): the parameters are a function of
\* the samples, so the record is identified by them
BasicFit(fitting_values) == [samples |-> fitting_values]

\* Fit._append_params, lines 543-548: the fitted parameter of the interval is
\* appended for slot index and every later slot with the same dependency
AppendParams(param_values, dep, idx, fitting_values) ==
    [s \in Slots |->
        IF s >= idx + 1 /\ dep[s] # NoDep /\ dep[s] = dep[idx + 1]
        THEN Append(param_values[s], fitting_values)
        ELSE param_values[s]]

\* lines 611-615: the state of the loop before its first iteration
LoopStart(centers) ==
    [interval_centers |-> centers, dist_values |-> << >>,
     param_values |-> [s \in Slots |-> << >>], multiple_basic_fit |-> << >>,
     warnings |-> 0, err |-> "none"]

\* lines 618-641: iteration i of the loop.  enumerate() walks the array bound to
\* interval_centers when the loop began (orig); np.delete rebinds the name to a
\* shorter copy and is handed the position i in orig.  An int index that is out
\* of bounds makes np.delete raise IndexError, which no handler here catches.
LoopStep(st, k0, orig, half, den, h, fails, dep, idx, nm) ==
    LET step == orig[k0 + 1]
        fitting_values == Mask(h, step, half, den)
        enough == EnoughData(MaskLen(h, step, half, den))
        fit == FitDistribution(nm, (k0 + 1) \notin fails)
    IN  IF enough /\ fit \notin {"none", "ValueError"}
        THEN [st EXCEPT !.err = fit]
        ELSE IF enough /\ fit = "none"
        THEN [st EXCEPT
                !.param_values = AppendParams(@, dep, idx, fitting_values),
                !.multiple_basic_fit = Append(@, BasicFit(fitting_values)),
                !.dist_values = Append(@, fitting_values)]
        ELSE IF k0 >= Len(st.interval_centers)
             THEN [st EXCEPT !.err = "IndexError"]
             ELSE [st EXCEPT !.interval_centers = NpDelete(@, k0),
                             !.warnings = @ + 1]

\* lines 642-645
LoopEnd(st) ==
    IF Len(st.interval_centers) < MIN_INTERVALS
    THEN [st EXCEPT !.err = "RuntimeError: intervals"]
    ELSE st

RECURSIVE LoopFrom(_, _, _, _, _, _, _, _, _, _)
LoopFrom(st, k0, orig, half, den, h, fails, dep, idx, nm) ==
    IF st.err # "none" THEN st
    ELSE IF k0 >= Len(orig) THEN LoopEnd(st)
    ELSE LoopFrom(LoopStep(st, k0, orig, half, den, h, fails, dep, idx, nm),
                  k0 + 1, orig, half, den, h, fails, dep, idx, nm)

\* the whole call, as the orchestrator uses it
GetFittingValues(h, dep, idx, n, w, fails, nm) ==
    IF n = 0 /\ w = 0
    THEN [LoopStart(<< >>) EXCEPT !.err = "RuntimeError: config"]
    ELSE LET M == MaxOf(h)
             orig == CandidateCenters(M, n, w)
         IN  LoopFrom(LoopStart(orig), 0, orig,
                      HalfWidth(M, n, w),
                      Den(n, w),
                      h, fails, dep, idx, nm)

\* ------------------------------------------------- FitInspectionData
\* Python values that are either None or a list
PyNone == [t |-> "None", v |-> << >>]
PyList(l) == [t |-> "list", v |-> l]

\* no interval count: None (falsy, as 0 is)
NoCount == 0

\* FitInspectionData.__init__, lines 117-135: per slot the *_at list, the three
\* lists of _*_value and the *_samples list
NewFitInspectionData ==
    [used_number_of_intervals |-> NoCount,
     at |-> [s \in Slots |-> PyNone],
     value |-> [s \in Slots |-> [j \in Slots |-> PyNone]],
     samples |-> [s \in Slots |-> PyNone]]

\* FitInspectionData.append_basic_fit, lines 203-217, for the slot's parameter:
\* .append on an attribute that is None raises AttributeError
AppendBasicFit(fid, s, basic_fit) ==
    IF \/ \E j \in Slots : fid.value[s][j].t = "None"
       \/ fid.samples[s].t = "None"
    THEN [err |-> "AttributeError", fid |-> fid]
    ELSE [err |-> "none",
          fid |-> [fid EXCEPT
                     !.value[s] = [j \in Slots |-> PyList(Append(@[j].v, basic_fit))],
                     !.samples[s] = PyList(Append(@.v, basic_fit.samples))]]

\* lines 743-749: every basic fit of the partition, in order
RECURSIVE AppendAll(_, _, _, _)
AppendAll(a, s, fits, k) ==
    IF a.err # "none" \/ k > Len(fits) THEN a
    ELSE AppendAll(AppendBasicFit(a.fid, s, fits[k]), s, fits, k + 1)

\* ---------------------------------------------- Fit._get_distribution
\* Parameter Values
NoParam == [t |-> "None", log |-> FALSE]
ConstantParam(log) == [t |-> "ConstantParam", log |-> log]
FunctionParam(log) == [t |-> "FunctionParam", log |-> log]

\* the samples of one dimension, as the set of their values
AllValues(h) == {Val(v) : v \in {u \in DOMAIN h : h[u] > 0}}

\* kwargs.get(key, default), lines 678-680
NameOf(kw) == IF kw.name = "omitted" THEN "Weibull" ELSE kw.name
DependencyOf(kw) == IF kw.dependency.kind = "omitted"
                    THEN [kind |-> "tuple", slots |-> <<NoDep, NoDep, NoDep>>]
                    ELSE kw.dependency
FunctionsOf(kw) == IF kw.functions = << >>
                   THEN <<"polynomial", "polynomial", "polynomial">>
                   ELSE kw.functions

\* a comparison that looks at the first slot only
FirstSlotNotNone(d) ==
    d.kind # "tuple" \/ d.slots[1] # NoDep

\* line 689: dependency != (None, None, None); a list never equals a tuple
NotTheNoneTuple(d) ==
    d.kind # "tuple" \/ \E s \in Slots : d.slots[s] # NoDep

\* lines 694-698 and 685: the locals of the slot loop, with what the call has
\* done so far: the dimensions partitioned, the whole-sample fits, the marginal
\* fits (whole-sample or per interval) that returned parameters, the curve
\* fits attempted and the retry warnings issued per slot
OrchStart ==
    [params |-> [s \in Slots |-> NoParam],
     used_number_of_intervals |-> [s \in Slots |-> NoCount],
     fit_inspection_data |-> NewFitInspectionData,
     bound |-> FALSE,               \* interval_centers ... multiple_basic_fit exist
     fv |-> LoopStart(<< >>),       \* their values, when bound
     partitioned |-> << >>,
     full_fits |-> 0,
     marginal_fits |-> 0,
     curve_fits |-> [s \in Slots |-> 0],
     warned |-> [s \in Slots |-> FALSE],
     err |-> "none"]

\* Fit._get_function, lines 500-508
GetFunction(function_name) ==
    IF function_name \in {"f1", "f2"} THEN "function"
    ELSE IF function_name = "None" THEN "None"
    ELSE "ValueError: function"

\* lines 754-792 for slot s: the least-squares fit with its one retry.  conv is
\* the attempt that converges: 1, 2, or 0 for neither.  _get_function raises
\* inside the try, where only RuntimeError is caught; curve_fit rejects a
\* function that is None and data whose length is not that of the centers.
CurveFit(o, s, kw, conv) ==
    LET f == GetFunction(FunctionsOf(kw)[s])
        log == (s = 3 /\ NameOf(kw) = "Lognormal_2")
    IN  IF f = "ValueError: function" THEN [o EXCEPT !.err = f]
        ELSE IF f = "None" THEN [o EXCEPT !.err = "TypeError"]
        ELSE IF Len(o.fv.param_values[s]) # Len(o.fv.interval_centers)
             THEN [o EXCEPT !.err = "ValueError"]
        ELSE IF conv = 1
             THEN [o EXCEPT !.curve_fits[s] = @ + 1,
                            !.params[s] = FunctionParam(log)]
        ELSE IF conv = 2
             THEN [o EXCEPT !.curve_fits[s] = @ + 2, !.warned[s] = TRUE,
                            !.params[s] = FunctionParam(log)]
        ELSE [o EXCEPT !.curve_fits[s] = @ + 2, !.warned[s] = TRUE,
                       !.err = "RuntimeError: curve"]

\* lines 712-728: the slots from s on that have no dependency take the
\* whole-sample fit
RECURSIVE FillIndependent(_, _, _, _)
FillIndependent(o, s, kw, basic_fit) ==
    IF o.err # "none" \/ s > 3 THEN o
    ELSE IF DependencyOf(kw).slots[s] # NoDep
         THEN FillIndependent(o, s + 1, kw, basic_fit)
    ELSE LET a == AppendBasicFit(o.fit_inspection_data, s, basic_fit)
         IN  IF a.err # "none" THEN [o EXCEPT !.err = a.err]
             ELSE FillIndependent(
                      [o EXCEPT !.fit_inspection_data = a.fid,
                                !.params[s] = ConstantParam(s = 3 /\ NameOf(kw) = "Lognormal_2")],
                      s + 1, kw, basic_fit)

\* lines 738-792: the slots from s on that share the dependency of slot first
RECURSIVE FillDependent(_, _, _, _, _)
FillDependent(o, s, first, kw, conv) ==
    IF o.err # "none" \/ s > 3 THEN o
    ELSE IF ~(DependencyOf(kw).slots[s] # NoDep
              /\ DependencyOf(kw).slots[s] = DependencyOf(kw).slots[first])
         THEN FillDependent(o, s + 1, first, kw, conv)
    ELSE IF ~o.bound THEN [o EXCEPT !.err = "UnboundLocalError"]
    ELSE LET a == AppendAll([err |-> "none", fid |-> o.fit_inspection_data],
                            s, o.fv.multiple_basic_fit, 1)
         IN  IF a.err # "none" THEN [o EXCEPT !.err = a.err]
             ELSE FillDependent(
                      CurveFit([o EXCEPT !.fit_inspection_data = a.fid,
                                         !.used_number_of_intervals[s] =
                                             Len(o.fv.interval_centers)],
                               s, kw, conv[s]),
                      s + 1, first, kw, conv)

\* lines 731-736: the partition over the referenced dimension d, made only if
\* that dimension gave a spacing; otherwise the four locals keep what they had
Partition(o, s, kw, smp, fails) ==
    LET d == DependencyOf(kw).slots[s]
        n == kw.list_number_of_intervals[d]
        w == kw.list_width_of_intervals[d]
    IN  IF n = 0 /\ w = 0 THEN o
        ELSE LET r == GetFittingValues(smp[d], DependencyOf(kw).slots, s - 1,
                                       IF n # 0 THEN n ELSE 0,
                                       IF n # 0 THEN 0 ELSE w,
                                       fails, NameOf(kw))
             IN  [o EXCEPT !.partitioned = Append(@, d),
                           !.marginal_fits = @ + Len(r.multiple_basic_fit),
                           !.bound = IF r.err = "none" THEN TRUE ELSE @,
                           !.fv = IF r.err = "none" THEN r ELSE @,
                           !.err = r.err]

\* lines 700-792: the loop over the slots, from slot s
RECURSIVE SlotLoop(_, _, _, _, _, _)
SlotLoop(o, s, kw, smp, dim, oracle) ==
    IF o.err # "none" \/ s > 3 THEN o
    ELSE IF o.params[s].t # "None" THEN SlotLoop(o, s + 1, kw, smp, dim, oracle)
    ELSE IF DependencyOf(kw).slots[s] = NoDep
         THEN LET fit == FitDistribution(NameOf(kw), oracle.full_fit_ok)
                  o1 == [o EXCEPT !.full_fits = @ + 1,
                                  !.marginal_fits = IF fit = "none" THEN @ + 1 ELSE @,
                                  !.err = fit]
              IN  SlotLoop(FillIndependent(o1, s, kw, BasicFit(AllValues(smp[dim]))),
                           s + 1, kw, smp, dim, oracle)
    ELSE SlotLoop(FillDependent(Partition(o, s, kw, smp, oracle.fails),
                                s, s, kw, oracle.conv),
                  s + 1, kw, smp, dim, oracle)

\* a distribution object: its family, its Parameter Values and the sample
\* (line 684, samples[dimension]) it was fitted to
Distribution(family, params, sample) ==
    [family |-> family, params |-> params, of |-> sample]
NoDistribution == Distribution("None", [s \in Slots |-> NoParam], {})

\* lines 794-803
Assemble(nm, params, sample) ==
    IF nm \in {"Weibull", "Lognormal_1", "Normal"}
    THEN Distribution(nm, params, sample)
    ELSE IF nm = "Lognormal_2"
    THEN Distribution(nm, [params EXCEPT ![2] = NoParam], sample)
    ELSE NoDistribution

\* the objects that travel in the third and fourth place of the returned
\* tuple: the list used_number_of_intervals, the FitInspectionData object, and
\* the two lists of the KernelDensity return, [[sample], [sample], [sample]]
\* and [None, None, None]
NoCounts == [s \in Slots |-> NoCount]
CountsList(c) == [t |-> "list of interval counts", counts |-> c,
                  fid |-> NewFitInspectionData]
InspectionObject(f) == [t |-> "FitInspectionData", counts |-> NoCounts, fid |-> f]
SampleLists == [t |-> "list of sample lists", counts |-> NoCounts,
                fid |-> NewFitInspectionData]
NoObject == [t |-> "None", counts |-> NoCounts, fid |-> NewFitInspectionData]

\* the 4-tuple a call returns
Returned(distribution, dep, third, fourth) ==
    [distribution |-> distribution, dependency |-> dep, third |-> third, fourth |-> fourth]
NothingReturned ==
    Returned(NoDistribution,
             [kind |-> "tuple", slots |-> <<NoDep, NoDep, NoDep>>],
             NoObject, NoObject)

\* lines 676-804: one call.  The outcome: raised or returned, the error, the
\* 4-tuple, and the locals at the end
GetDistribution(dim, smp, kw, oracle) ==
    IF NameOf(kw) = "KernelDensity"
    THEN IF NotTheNoneTuple(DependencyOf(kw))
         THEN [err |-> "NotImplementedError", ret |-> NothingReturned, o |-> OrchStart]
         ELSE LET fit == FitDistribution("KernelDensity", oracle.full_fit_ok)
                  o1 == [OrchStart EXCEPT !.full_fits = 1,
                                          !.marginal_fits = IF fit = "none" THEN 1 ELSE 0,
                                          !.err = fit]
              IN  [err |-> fit,
                   ret |-> IF fit # "none" THEN NothingReturned
                           ELSE Returned(Distribution("KernelDensity",
                                                      [s \in Slots |-> NoParam],
                                                      AllValues(smp[dim])),
                                         DependencyOf(kw),
                                         SampleLists,
                                         CountsList(NoCounts)),
                   o |-> o1]
    ELSE LET o == SlotLoop(OrchStart, 1, kw, smp, dim, oracle)
         IN  [err |-> o.err,
              ret |-> IF o.err # "none" THEN NothingReturned
                      ELSE Returned(Assemble(NameOf(kw), o.params, AllValues(smp[dim])),
                                    DependencyOf(kw),
                                    CountsList(o.used_number_of_intervals),
                                    InspectionObject(o.fit_inspection_data)),
              o |-> o]

\* ---------------------------------------------------------------------
\* The partitioner as a state machine: one call, stepped through its loop
\* ---------------------------------------------------------------------
Histograms == {h \in [0..MaxCov -> Counts] : \E v \in 1..MaxCov : h[v] > 0}

\* the spacing the orchestrator passes: exactly one of the two (lines 731-736)
Spacings == {<<n, 0>> : n \in 1..MaxIntervals} \cup {<<0, w>> : w \in 1..MaxWidth}

\* (dependency, index) pairs of a call: index is a dependent slot
PartCalls == {<< <<0, NoDep, NoDep>>, 0 >>, << <<NoDep, 1, 1>>, 1 >>}

\* the candidate intervals that hold enough samples for a fit to be tried
Populated(h, n, w) ==
    LET M == MaxOf(h)
        c == CandidateCenters(M, n, w)
    IN  {k \in 1..Len(c) :
            EnoughData(MaskLen(h, c[k], HalfWidth(M, n, w), Den(n, w)))}

\* the family of a call: a fitted one, and one no branch of the fitter matches
PartNames == {"Weibull", "Gumbel"}

PartInit ==
    /\ pc = "entry"
    /\ cov \in Histograms
    /\ \E sp \in Spacings : number_of_intervals = sp[1] /\ bin_width = sp[2]
    /\ \E c \in PartCalls : dependency = c[1] /\ index = c[2]
    /\ fit_fails \in {F \in SUBSET Populated(cov, number_of_intervals, bin_width) :
                        Cardinality(F) <= MaxFails}
    /\ name \in PartNames
    /\ orig_centers = << >>
    /\ i = 0
    /\ part = LoopStart(<< >>)

\* lines 593-615
PartEnter ==
    /\ pc = "entry"
    /\ orig_centers' = CandidateCenters(MaxOf(cov), number_of_intervals, bin_width)
    /\ part' = LoopStart(orig_centers')
    /\ i' = 0
    /\ pc' = "loop"
    /\ UNCHANGED <<cov, dependency, index, number_of_intervals, bin_width, fit_fails, name>>
    /\ UNCHANGED <<orch_vars, coord_vars, samples>>

\* lines 618-641
PartIterate ==
    /\ pc = "loop"
    /\ i < Len(orig_centers)
    /\ part' = LoopStep(part, i, orig_centers,
                        HalfWidth(MaxOf(cov), number_of_intervals, bin_width),
                        Den(number_of_intervals, bin_width),
                        cov, fit_fails, dependency, index, name)
    /\ i' = i + 1
    /\ pc' = IF part'.err # "none" THEN "raised" ELSE "loop"
    /\ UNCHANGED <<cov, dependency, index, number_of_intervals, bin_width,
                   fit_fails, orig_centers, name>>
    /\ UNCHANGED <<orch_vars, coord_vars, samples>>

\* lines 642-645
PartExit ==
    /\ pc = "loop"
    /\ i >= Len(orig_centers)
    /\ part' = LoopEnd(part)
    /\ pc' = IF part'.err # "none" THEN "raised" ELSE "returned"
    /\ UNCHANGED <<cov, dependency, index, number_of_intervals, bin_width,
                   fit_fails, orig_centers, name, i>>
    /\ UNCHANGED <<orch_vars, coord_vars, samples>>

\* ---------------------------------------------------------------------
\* The orchestrator: one call of _get_distribution on drawn arguments
\* ---------------------------------------------------------------------
Dims == 0..(NDim - 1)

\* sample sets: every covariate value carries 10 samples, or only the ends do,
\* in every dimension or (MixedSamples) in every dimension but the first
DenseHist == [v \in 0..MaxCov |-> 10]
EndsHist == [v \in 0..MaxCov |-> IF v \in {0, MaxCov} THEN 10 ELSE 0]
MixedSamples == [d \in Dims |-> IF d = 0 THEN DenseHist ELSE EndsHist]
SampleSets == {[d \in Dims |-> h] : h \in {DenseHist, EndsHist}} \cup {MixedSamples}

OrchNames == {"Weibull", "Lognormal_2", "KernelDensity", "Lognormal_3", "Gumbel", "omitted"}

\* a dependency: omitted, a tuple of three slots, or the list [None, None, None]
Dependencies ==
    {[kind |-> "tuple", slots |-> sl] : sl \in [Slots -> {NoDep} \cup Dims]}
    \cup {[kind |-> "list", slots |-> <<NoDep, NoDep, NoDep>>],
          [kind |-> "omitted", slots |-> <<NoDep, NoDep, NoDep>>]}

\* the functions: omitted (<< >>), or a triple
FunctionChoices == {<< >>, <<"f1", "f2", "None">>}

\* the spacings the dimensions ask for, as <<number_of_intervals,
\* width_of_intervals>>: all the same number or the same width, but for at
\* most one dimension that gives neither
SpacingChoices ==
    {[d \in Dims |-> IF d = miss THEN <<0, 0>> ELSE sp] :
        sp \in {<<MIN_INTERVALS, 0>>, <<0, 2>>}, miss \in Dims \cup {NDim}}

KwargsChoices ==
    {[name |-> nm, dependency |-> dp, functions |-> fs,
      list_number_of_intervals |-> [d \in Dims |-> sp[d][1]],
      list_width_of_intervals |-> [d \in Dims |-> sp[d][2]]] :
        nm \in OrchNames, dp \in Dependencies, fs \in FunctionChoices,
        sp \in SpacingChoices}

\* what the libraries may do in one call: the whole-sample fit succeeds or
\* raises ValueError, the per-interval fits that raise it, and per slot the
\* attempt of the least-squares fit that converges
Oracles ==
    {[full_fit_ok |-> ok, fails |-> F, conv |-> cv] :
        ok \in BOOLEAN,
        F \in {{}, {1}, {2}, {MIN_INTERVALS}},
        cv \in {<<1, 2, 0>>, <<2, 0, 1>>, <<0, 1, 2>>}}

NoResult == [err |-> "none", ret |-> NothingReturned, o |-> OrchStart]

OrchIdle ==
    /\ opc = "idle"
    /\ dimension = 0
    /\ kwargs = [name |-> "omitted",
                 dependency |-> [kind |-> "omitted", slots |-> <<NoDep, NoDep, NoDep>>],
                 functions |-> << >>,
                 list_number_of_intervals |-> [d \in Dims |-> 0],
                 list_width_of_intervals |-> [d \in Dims |-> 0]]
    /\ result = NoResult

OrchInit ==
    /\ opc = "called"
    /\ dimension \in Dims
    /\ samples \in SampleSets
    /\ kwargs \in KwargsChoices
    /\ result = NoResult

\* lines 647-804
CallGetDistribution ==
    /\ opc = "called"
    /\ \E oracle \in Oracles :
          result' = GetDistribution(dimension, samples, kwargs, oracle)
    /\ opc' = IF result'.err = "none" THEN "returned" ELSE "raised"
    /\ UNCHANGED <<dimension, samples, kwargs>>
    /\ UNCHANGED <<part_vars, coord_vars>>

\* ---------------------------------------------------------------------
\* The coordinator: one construction of Fit (Fit.__init__)
\* ---------------------------------------------------------------------
\* a distribution description, a dict: the keys the caller gave, the two lists
\* the constructor adds to every description (lines 412-414) and the key the
\* join writes (line 448)
Description(nm, dp, fs, sp) ==
    [name |-> nm, dependency |-> dp, functions |-> fs,
     number_of_intervals |-> sp[1], width_of_intervals |-> sp[2],
     list_number_of_intervals |-> [d \in Dims |-> 0],
     list_width_of_intervals |-> [d \in Dims |-> 0],
     used_number_of_intervals |-> NoCount,
     keys |-> {"name", "functions"}
              \cup (IF dp.kind = "omitted" THEN {} ELSE {"dependency"})
              \cup (IF sp[1] # 0 THEN {"number_of_intervals"} ELSE {})
              \cup (IF sp[2] # 0 THEN {"width_of_intervals"} ELSE {})]

NoneTuple == [kind |-> "tuple", slots |-> <<NoDep, NoDep, NoDep>>]

CoordDescriptions ==
    {Description(nm, dp, <<"None", "None", "f2">>, sp) :
        nm \in {"KernelDensity", "Weibull", "Lognormal_2"},
        dp \in {NoneTuple,
                 [kind |-> "list", slots |-> <<NoDep, NoDep, NoDep>>],
                 [kind |-> "tuple", slots |-> <<NoDep, NoDep, 0>>]},
        sp \in {<<0, 2>>, <<MIN_INTERVALS, 0>>}}

NotSubmitted == [state |-> "none", res |-> NoResult]

CoordIdle ==
    /\ cpc = "idle"
    /\ call_keywords = {}
    /\ completion = << >>
    /\ dist_descriptions = [d \in Dims |-> Description("omitted", NoneTuple, << >>, <<0, 0>>)]
    /\ multiple_results = [d \in Dims |-> NotSubmitted]
    /\ join_i = 0
    /\ distributions = << >>
    /\ dependencies = << >>
    /\ multiple_fit_inspection_data = << >>
    /\ mul_var_dist = "unassigned"
    /\ cerr = "none"

\* the keyword arguments a caller passes besides samples and dist_descriptions
CallKeywords == {{}, {"timeout"}}

CoordInit ==
    /\ cpc = "call"
    /\ call_keywords \in CallKeywords
    /\ completion = << >>
    /\ samples \in SampleSets
    /\ \E sp \in {<<0, 2>>, <<MIN_INTERVALS, 0>>} :
          dist_descriptions \in
              [Dims -> {c \in CoordDescriptions :
                          <<c.number_of_intervals, c.width_of_intervals>> = sp}]
    /\ multiple_results = [d \in Dims |-> NotSubmitted]
    /\ join_i = 0
    /\ distributions = << >>
    /\ dependencies = << >>
    /\ multiple_fit_inspection_data = << >>
    /\ mul_var_dist = "unassigned"
    /\ cerr = "none"

\* line 355: def __init__(self, samples, dist_descriptions) binds the call's
\* arguments; a keyword the signature does not name raises TypeError
Construct ==
    /\ cpc = "call"
    /\ IF call_keywords = {}
       THEN cpc' = "broadcast" /\ UNCHANGED cerr
       ELSE cpc' = "raised" /\ cerr' = "TypeError"
    /\ UNCHANGED <<samples, call_keywords, dist_descriptions, multiple_results,
                   completion, join_i, distributions, dependencies,
                   multiple_fit_inspection_data, mul_var_dist>>
    /\ UNCHANGED <<part_vars, orch_vars>>

\* lines 405-414: every description receives the lists of all the spacings
Broadcast ==
    /\ cpc = "broadcast"
    /\ dist_descriptions' =
          [d \in Dims |->
              [dist_descriptions[d] EXCEPT
                 !.list_number_of_intervals =
                     [e \in Dims |-> dist_descriptions[e].number_of_intervals],
                 !.list_width_of_intervals =
                     [e \in Dims |-> dist_descriptions[e].width_of_intervals],
                 !.keys = @ \cup {"list_number_of_intervals", "list_width_of_intervals"}]]
    /\ cpc' = "dispatch"
    /\ UNCHANGED <<samples, multiple_results, join_i, distributions, dependencies,
                   multiple_fit_inspection_data, mul_var_dist, cerr>>
    /\ UNCHANGED <<part_vars, orch_vars, call_keywords, completion>>

\* lines 416-427: one task per dimension is handed to the pool
Dispatch ==
    /\ cpc = "dispatch"
    /\ multiple_results' = [d \in Dims |-> [state |-> "pending", res |-> NoResult]]
    /\ cpc' = "join"
    /\ UNCHANGED <<samples, dist_descriptions, join_i, distributions, dependencies,
                   multiple_fit_inspection_data, mul_var_dist, cerr>>
    /\ UNCHANGED <<part_vars, orch_vars, call_keywords, completion>>

\* what the libraries may do in a task: as in a single call, with one choice
\* for the least-squares fits
TaskOracles == {oracle \in Oracles : oracle.conv = <<1, 2, 0>>}

\* a worker process runs _get_distribution(dimension, samples, **dist_description)
TaskRun(d) ==
    /\ multiple_results[d].state = "pending"
    /\ \E oracle \in TaskOracles :
          multiple_results' =
              [multiple_results EXCEPT
                 ![d] = [state |-> "done",
                         res |-> GetDistribution(d, samples, dist_descriptions[d], oracle)]]
    /\ completion' = Append(completion, d)
    /\ UNCHANGED <<samples, cpc, dist_descriptions, join_i, distributions, dependencies,
                   multiple_fit_inspection_data, mul_var_dist, cerr>>
    /\ UNCHANGED <<part_vars, orch_vars, call_keywords>>

\* used_number_of_intervals[dep_index] (line 448) needs a subscriptable object
Subscriptable(obj) == obj.t \in {"list of interval counts", "list of sample lists"}

\* lines 446-448: the back-fill of one joined result into the descriptions
RECURSIVE BackFill(_, _, _, _)
BackFill(dd, dep, counts, s) ==
    IF s > 3 THEN dd
    ELSE IF dep[s] = NoDep THEN BackFill(dd, dep, counts, s + 1)
    ELSE BackFill([dd EXCEPT ![dep[s]].used_number_of_intervals = counts[s],
                             ![dep[s]].keys = @ \cup {"used_number_of_intervals"}],
                  dep, counts, s + 1)

\* a join that takes the results as the tasks complete
ResultByCompletion(k) ==
    IF k < Len(completion) THEN multiple_results[completion[k + 1]]
    ELSE [state |-> "pending", res |-> NoResult]

\* line 434: enumerate(multiple_results) takes the results by position, and the
\* tasks were appended by dimension (lines 424-427)
ResultFor(k) == multiple_results[k]

\* lines 434-448, one iteration: res.get() re-raises what the task raised;
\* otherwise the tuple is unpacked as distribution, dependency,
\* fit_inspection_data, used_number_of_intervals
Join ==
    /\ cpc = "join"
    /\ join_i < NDim
    /\ ResultFor(join_i).state = "done"
    /\ LET r == ResultFor(join_i).res
            dependency_ == r.ret.dependency
            fit_inspection_data == r.ret.third
            used_number_of_intervals == r.ret.fourth
            dependent == \E s \in Slots : dependency_.slots[s] # NoDep
       IN  IF r.err # "none"
           THEN /\ cpc' = "raised"
                /\ cerr' = r.err
                /\ UNCHANGED <<dist_descriptions, join_i, distributions, dependencies,
                               multiple_fit_inspection_data>>
           ELSE /\ distributions' = Append(distributions, r.ret.distribution)
                /\ dependencies' = Append(dependencies, dependency_)
                /\ multiple_fit_inspection_data' =
                      Append(multiple_fit_inspection_data, fit_inspection_data)
                /\ IF dependent /\ ~Subscriptable(used_number_of_intervals)
                   THEN /\ cpc' = "raised"
                        /\ cerr' = "TypeError"
                        /\ UNCHANGED <<dist_descriptions, join_i>>
                   ELSE /\ dist_descriptions' =
                             BackFill(dist_descriptions, dependency_.slots,
                                      used_number_of_intervals.counts, 1)
                        /\ join_i' = join_i + 1
                        /\ UNCHANGED <<cpc, cerr>>
    /\ UNCHANGED <<samples, multiple_results, mul_var_dist>>
    /\ UNCHANGED <<part_vars, orch_vars, call_keywords, completion>>

\* line 436: res.get(timeout=1e6) gives up on a task that is still running
JoinTimeout ==
    /\ cpc = "join"
    /\ join_i < NDim
    /\ ResultFor(join_i).state = "pending"
    /\ cpc' = "raised"
    /\ cerr' = "TimeoutError"
    /\ UNCHANGED <<samples, dist_descriptions, multiple_results, join_i, distributions,
                   dependencies, multiple_fit_inspection_data, mul_var_dist>>
    /\ UNCHANGED <<part_vars, orch_vars, call_keywords, completion>>

\* lines 450-453: reading .used_number_of_intervals of an entry that is a list
\* raises AttributeError; a record with no count gets 1
DefaultCount(obj) ==
    IF obj.fid.used_number_of_intervals = NoCount
    THEN [obj EXCEPT !.fid.used_number_of_intervals = 1]
    ELSE obj

\* lines 450-456: the defaults, then the joint distribution
Finish ==
    /\ cpc = "join"
    /\ join_i = NDim
    /\ IF \E k \in 1..Len(multiple_fit_inspection_data) :
              multiple_fit_inspection_data[k].t # "FitInspectionData"
       THEN /\ cpc' = "raised"
            /\ cerr' = "AttributeError"
            /\ UNCHANGED <<multiple_fit_inspection_data, mul_var_dist>>
       ELSE /\ multiple_fit_inspection_data' =
                 [k \in 1..Len(multiple_fit_inspection_data) |->
                     DefaultCount(multiple_fit_inspection_data[k])]
            /\ mul_var_dist' = "MultivariateDistribution"
            /\ cpc' = "done"
            /\ UNCHANGED cerr
    /\ UNCHANGED <<samples, dist_descriptions, multiple_results, join_i, distributions,
                   dependencies>>
    /\ UNCHANGED <<part_vars, orch_vars, call_keywords, completion>>

\* ---------------------------------------------------------------------
\* Specifications: each runs one component and leaves the others idle
\* ---------------------------------------------------------------------
PartIdle ==
    /\ pc = "idle"
    /\ cov = DenseHist
    /\ number_of_intervals = 0 /\ bin_width = 0
    /\ dependency = <<NoDep, NoDep, NoDep>> /\ index = 0
    /\ fit_fails = {}
    /\ name = "Weibull"
    /\ orig_centers = << >>
    /\ i = 0
    /\ part = LoopStart(<< >>)

vars == <<part_vars, orch_vars, coord_vars, samples>>

InitPart == PartInit /\ OrchIdle /\ CoordIdle /\ samples = [d \in Dims |-> DenseHist]

PartNext == PartEnter \/ PartIterate \/ PartExit

SpecPart == InitPart /\ [][PartNext]_vars

InitOrch == OrchInit /\ PartIdle /\ CoordIdle

OrchNext == CallGetDistribution

SpecOrch == InitOrch /\ [][OrchNext]_vars

Init == CoordInit /\ PartIdle /\ OrchIdle

Next ==
    \/ Construct
    \/ Broadcast
    \/ Dispatch
    \/ \E d \in Dims : TaskRun(d)
    \/ Join
    \/ JoinTimeout
    \/ Finish

Spec == Init /\ [][Next]_vars

\* ---------------------------------------------------------------------
\* Properties of the partitioner (checked under SpecPart)
\* ---------------------------------------------------------------------
CurMax == MaxOf(cov)
CurHalf == HalfWidth(CurMax, number_of_intervals, bin_width)
CurDen == Den(number_of_intervals, bin_width)
Finished == pc \in {"returned", "raised"}
KnownFamily == name \in {"Weibull", "Normal", "Lognormal_1", "Lognormal_2"}

\* the samples a candidate interval selects, and the candidates that survive:
\* those holding at least 10 samples whose marginal fit succeeds
SelectedBy(k) == Mask(cov, orig_centers[k], CurHalf, CurDen)
Survivors == Populated(cov, number_of_intervals, bin_width) \ fit_fails
Dropped == (1..Len(orig_centers)) \ Survivors

\* the k-th smallest member of a set of numbers
Nth(S, k) == CHOOSE x \in S : Cardinality({y \in S : y < x}) = k - 1
SurvivorCenters == [k \in 1..Cardinality(Survivors) |-> orig_centers[Nth(Survivors, k)]]

\* C1: the centers returned are exactly the centers of the surviving candidate
\* intervals, in ascending order, the k-th center belongs to the interval that
\* gave the k-th sample subset and the k-th fit, and, for a family the fitter
\* knows, dropping intervals never makes the call fail while at least 3 survive.
C1_CentersAreTheSurvivors ==
    /\ pc = "returned" =>
          /\ part.interval_centers = SurvivorCenters
          /\ Len(part.dist_values) = Len(part.interval_centers)
          /\ Len(part.multiple_basic_fit) = Len(part.interval_centers)
          /\ \A k \in 1..Len(part.interval_centers) :
                /\ part.dist_values[k] =
                      Mask(cov, part.interval_centers[k], CurHalf, CurDen)
                /\ part.multiple_basic_fit[k].samples = part.dist_values[k]
    /\ (KnownFamily /\ Cardinality(Survivors) >= MIN_INTERVALS) => pc # "raised"

\* C2: for a family the fitter knows, when fewer than 3 intervals survive the
\* call fails with the insufficient-intervals RuntimeError and no other error,
\* citing the number of survivors; when 3 or more survive it does not raise
\* that error.
C2_InsufficientIntervalsError ==
    (Finished /\ KnownFamily) =>
        IF Cardinality(Survivors) < MIN_INTERVALS
        THEN /\ pc = "raised"
             /\ part.err = "RuntimeError: intervals"
             /\ Len(part.interval_centers) = Cardinality(Survivors)
        ELSE part.err # "RuntimeError: intervals"

\* C3 as stated: in fixed-width mode the number of centers returned is
\* ceil(M / W) minus the number of intervals holding fewer than 10 samples.
C3_CountIsCeilOfMaxOverWidth ==
    (pc = "returned" /\ number_of_intervals = 0) =>
        Len(part.interval_centers) =
            CeilDiv(CurMax, bin_width)
            - Cardinality((1..Len(orig_centers))
                          \ Populated(cov, number_of_intervals, bin_width))

\* the odd multiples of W/2 that lie strictly below M
OddMultiplesBelow(M, W) == {k \in 1..(2 * M) : (2 * k - 1) * W < 2 * M}

\* C3 (amended): in fixed-width mode a call that returns gives as many centers
\* as there are odd multiples of W/2 strictly below M, which is
\* ceil(M / W - 1/2), minus the number of intervals dropped, for holding fewer
\* than 10 samples or for a failed marginal fit.
C3_CountIsCandidatesMinusDropped ==
    (pc = "returned" /\ number_of_intervals = 0) =>
        /\ Cardinality(OddMultiplesBelow(CurMax, bin_width))
             = CeilDiv(2 * CurMax - bin_width, 2 * bin_width)
        /\ Len(part.interval_centers) =
             Cardinality(OddMultiplesBelow(CurMax, bin_width))
             - Cardinality({k \in OddMultiplesBelow(CurMax, bin_width) :
                   \/ ~EnoughData(MaskLen(cov, (2 * k - 1) * bin_width, bin_width, 2))
                   \/ k \in fit_fails})

\* a fixed-width call returns where ceil(M / W) is not the number of candidates
C3_Witness ==
    /\ pc = "returned"
    /\ number_of_intervals = 0
    /\ CeilDiv(CurMax, bin_width) # Len(orig_centers)
    /\ Len(part.interval_centers) = MIN_INTERVALS

\* the samples of the covariate, and the candidate intervals selecting one
SampleValues == {Val(v) : v \in {u \in DOMAIN cov : cov[u] > 0}}
Selecting(x) == {k \in 1..Len(orig_centers) : InInterval(x, orig_centers[k], CurHalf, CurDen)}

\* C4 as stated: before any interval is dropped, every sample whose covariate
\* lies in [0, max) is selected for exactly one candidate interval, in both modes.
C4_EverySampleBelowMaxInOneInterval ==
    (pc = "loop" /\ i = 0) =>
        \A x \in SampleValues : x < CurMax => Cardinality(Selecting(x)) = 1

\* C4 (amended): the candidate intervals are pairwise disjoint and together
\* cover [0, n * width), n the number of candidates: a sample is selected for
\* exactly one candidate if its covariate lies in that range and for none
\* otherwise.  In interval-count mode the range is [0, max); in fixed-width
\* mode n = ceil(M / W - 1/2) and the range may end below max or above it.
C4_CandidatesPartitionTheirRange ==
    (pc = "loop" /\ i = 0) =>
        LET n == Len(orig_centers)
        IN  /\ \A x \in SampleValues :
                  Cardinality(Selecting(x)) =
                      IF x * CurDen < n * 2 * CurHalf THEN 1 ELSE 0
            /\ number_of_intervals # 0 => n * 2 * CurHalf = CurMax * CurDen
            /\ number_of_intervals = 0 =>
                  n = CeilDiv(2 * CurMax - bin_width, 2 * bin_width)

\* fixed-width candidates have been computed and leave a sample below max out
C4_Witness ==
    /\ pc = "loop" /\ i = 0
    /\ number_of_intervals = 0
    /\ Len(orig_centers) >= 2
    /\ \E x \in SampleValues : x < CurMax /\ Selecting(x) = {}

\* ---------------------------------------------------------------------
\* Properties of the orchestrator (checked under SpecOrch)
\* ---------------------------------------------------------------------
Called == opc \in {"returned", "raised"}
ParametricFamily == NameOf(kwargs) \in {"Weibull", "Normal", "Lognormal_1", "Lognormal_2"}
DependencySlots == DependencyOf(kwargs).slots
Referenced == {DependencySlots[s] : s \in Slots} \ {NoDep}
NoSpacing(d) == kwargs.list_number_of_intervals[d] = 0
                /\ kwargs.list_width_of_intervals[d] = 0
NoWorkDone == /\ result.o.partitioned = << >>
              /\ result.o.full_fits = 0
              /\ \A s \in Slots : result.o.curve_fits[s] = 0

\* C5: a dependent slot whose referenced dimension gave neither a number nor a
\* width of intervals makes the call fail with the configuration error, before
\* any partitioning, marginal fitting or curve fitting.
C5_MissingSpacingIsAConfigurationError ==
    (Called /\ ParametricFamily /\ \E d \in Referenced : NoSpacing(d)) =>
        /\ opc = "raised"
        /\ result.err = "RuntimeError: config"
        /\ NoWorkDone

\* the failures the design documents for a call
DocumentedFailure(e) ==
    e \in {"RuntimeError: intervals", "RuntimeError: curve", "RuntimeError: config",
            "ValueError", "ValueError: function", "NotImplementedError"}
Occurrences(seq, x) == Cardinality({k \in 1..Len(seq) : seq[k] = x})

\* C8: unless the call stops on a documented failure, the slots are processed
\* with exactly one partition per distinct referenced dimension and one
\* whole-sample fit iff some slot is independent, and a call that ends without
\* error has a Parameter Value in all three slots.
C8_OnePartitionPerReferencedDimension ==
    (/\ Called /\ ParametricFamily
     /\ \A d \in Referenced : ~NoSpacing(d)
     /\ ~DocumentedFailure(result.err)) =>
        /\ \A d \in Dims : Occurrences(result.o.partitioned, d) =
                                IF d \in Referenced THEN 1 ELSE 0
        /\ result.o.full_fits =
              IF \E s \in Slots : DependencySlots[s] = NoDep THEN 1 ELSE 0
        /\ result.err = "none" => \A s \in Slots : result.o.params[s].t # "None"

\* the record the call built, and the length its lists should have for slot s
Record == result.o.fit_inspection_data
SlotEntries(s) == IF DependencySlots[s] = NoDep THEN 1
                  ELSE result.o.used_number_of_intervals[s]
Populated3(s) == /\ Record.at[s].t = "list"
                 /\ Record.samples[s].t = "list"
                 /\ \A j \in Slots : Record.value[s][j].t = "list"
SameLength(s) == /\ Len(Record.at[s].v) = SlotEntries(s)
                 /\ Len(Record.samples[s].v) = SlotEntries(s)
                 /\ \A j \in Slots : Len(Record.value[s][j].v) = SlotEntries(s)

\* C11: unless the call stops on a documented failure, appending basic fits to
\* the fresh record succeeds, and for each slot the record's list of interval
\* centers, its lists of parameter values and its list of sample subsets are
\* populated and have one length: the number of surviving intervals for a
\* dependent slot, 1 for an independent slot.
C11_InspectionRecordIsPopulated ==
    (/\ Called /\ ParametricFamily
     /\ \A d \in Referenced : ~NoSpacing(d)
     /\ ~DocumentedFailure(result.err)) =>
        /\ result.err # "AttributeError"
        /\ \A s \in Slots : Populated3(s) /\ SameLength(s)

\* the append to a fresh FitInspectionData stops every call for a parametric
\* family before its first curve fit: no such call returns
OnlyKernelDensityReturns ==
    /\ opc = "returned" => NameOf(kwargs) = "KernelDensity"
    /\ \A s \in Slots : result.o.curve_fits[s] = 0 /\ result.o.params[s].t = "None"

\* ---------------------------------------------------------------------
\* Properties of the coordinator (checked under Spec)
\* ---------------------------------------------------------------------
TaskOf(d) == multiple_results[d].res
Joined(d) == Len(multiple_fit_inspection_data) > d

\* the dependent slots, of any joined dimension, that reference dimension d
Incoming(d) == {es \in Dims \X Slots :
                  Joined(es[1]) /\ TaskOf(es[1]).ret.dependency.slots[es[2]] = d}

\* C9: once every dimension's result has been retrieved and the constructor
\* has ended, the inspection record of a dimension referenced as a dependency
\* target has the number of surviving intervals of the partition over it as
\* its used_number_of_intervals, and the record of any other dimension has 1.
C9_UsedNumberOfIntervals ==
    (cpc \in {"done", "raised"} /\ join_i = NDim) =>
        \A d \in Dims :
            LET entry == multiple_fit_inspection_data[d + 1]
            IN  /\ entry.t = "FitInspectionData"
                /\ IF Incoming(d) = {}
                   THEN entry.fid.used_number_of_intervals = 1
                   ELSE \A es \in Incoming(d) :
                           entry.fid.used_number_of_intervals =
                               TaskOf(es[1]).o.used_number_of_intervals[es[2]]

\* C10: the tuple a task returns is (distribution, dependency, interval counts,
\* inspection record), and the entry the join stores for dimension d is the
\* inspection record the task of d built.
C10_JoinStoresTheTasksRecord ==
    cpc = "join" =>
        \A d \in Dims : Joined(d) =>
            /\ TaskOf(d).ret.third = CountsList(TaskOf(d).o.used_number_of_intervals)
            /\ TaskOf(d).ret.fourth = InspectionObject(TaskOf(d).o.fit_inspection_data)
            /\ multiple_fit_inspection_data[d + 1] =
                  InspectionObject(TaskOf(d).o.fit_inspection_data)

\* the constructor got as far as handing the tasks to the pool
Dispatched == \A d \in Dims : multiple_results[d].state # "none"

\* C12: the join waits for each result without a timeout, so the constructor
\* never ends with a timeout error however long a task stays pending, and a
\* call that passes timeout=None is accepted and runs its tasks.
C12_JoinNeverTimesOut ==
    cpc = "raised" =>
        /\ cerr # "TimeoutError"
        /\ "timeout" \in call_keywords => Dispatched

\* C13: one task per dimension, each run once, and in every state, whatever the
\* order in which the tasks ended, the i-th of the distributions and of the
\* dependencies collected for the joint distribution is the one the task of
\* dimension i returned, fitted to the sample of dimension i.
C13_JoinKeepsDimensionOrder ==
    /\ DOMAIN multiple_results = Dims
    /\ \A d \in Dims :
          Occurrences(completion, d) = IF multiple_results[d].state = "done" THEN 1 ELSE 0
    /\ Len(dependencies) = Len(distributions)
    /\ \A k \in 1..Len(distributions) :
          /\ multiple_results[k - 1].state = "done"
          /\ distributions[k] = TaskOf(k - 1).ret.distribution
          /\ dependencies[k] = TaskOf(k - 1).ret.dependency
          /\ distributions[k].of = AllValues(samples[k - 1])
    /\ mul_var_dist # "unassigned" => Len(distributions) = NDim

\* every result joined, of tasks that did not end in dimension order and that
\* returned different distributions
C13_Witness ==
    /\ Len(completion) = NDim /\ completion[1] # 0
    /\ Len(distributions) = NDim
    /\ distributions[1] # distributions[2]

\* the task of dimension d has ended by raising
Failed(d) == multiple_results[d].state = "done" /\ TaskOf(d).err # "none"
Ended == cpc \in {"done", "raised"}

\* C14: when the constructor has ended and the task of some dimension failed,
\* the constructor raised the failure of a failed task and mul_var_dist is not
\* assigned; mul_var_dist is assigned only when every dimension's result was
\* retrieved from a task that returned.
C14_TaskFailureIsRaised ==
    /\ (Ended /\ \E d \in Dims : Failed(d)) =>
          /\ cpc = "raised"
          /\ mul_var_dist = "unassigned"
          /\ \E d \in Dims : Failed(d) /\ cerr = TaskOf(d).err
    /\ mul_var_dist # "unassigned" =>
          /\ join_i = NDim
          /\ \A d \in Dims : multiple_results[d].state = "done" /\ ~Failed(d)

\* the keys and values the caller gave a description: those of the description
\* built from its name, dependency, functions and spacing
AsSupplied(desc) ==
    Description(desc.name, desc.dependency, desc.functions,
                <<desc.number_of_intervals, desc.width_of_intervals>>)

\* C15: when the constructor has ended, with or without an error, every
\* description has exactly the keys and the values the caller supplied.
C15_DescriptionsAreNotModified ==
    Ended => \A d \in Dims : dist_descriptions[d] = AsSupplied(dist_descriptions[d])

\* the distribution families of the design
Families == {"Weibull", "Normal", "Lognormal_1", "Lognormal_2", "KernelDensity"}

\* C16: for a family name outside Families the call raises, no marginal fit
\* has returned parameters for that name, and nothing is returned, in
\* particular no tuple whose distribution is None.
C16_UnknownFamilyFailsFast ==
    (Called /\ NameOf(kwargs) \notin Families) =>
        /\ opc = "raised"
        /\ result.o.marginal_fits = 0
        /\ result.ret = NothingReturned

DependentSlots == {s \in Slots : DependencySlots[s] # NoDep}

\* C17: a dependent slot whose function is not 'f1' or 'f2' (an unknown name,
\* the default of an omitted 'functions', or None) makes the call fail with the
\* unknown-function ValueError before any partitioning or marginal fit.
C17_UnknownFunctionIsAConfigurationError ==
    (/\ Called /\ ParametricFamily
     /\ \E s \in DependentSlots : FunctionsOf(kwargs)[s] \notin {"f1", "f2"}) =>
        /\ result.err = "ValueError: function"
        /\ NoWorkDone

\* C18: a KernelDensity description with a dependency in at least one slot
\* makes the call raise the can-not-be-conditional error, for every sample
\* set, before any density estimate, partition or fit.
C18_ConditionalKernelDensityIsRefused ==
    (Called /\ NameOf(kwargs) = "KernelDensity" /\ DependentSlots # {}) =>
        /\ opc = "raised"
        /\ result.err = "NotImplementedError"
        /\ NoWorkDone
        /\ result.o.marginal_fits = 0

\* a refused call whose only dependency is in the second slot, on the sample
\* set whose dimensions differ
C18_Witness ==
    /\ opc = "raised"
    /\ NameOf(kwargs) = "KernelDensity"
    /\ DependencySlots = <<NoDep, 0, NoDep>>
    /\ samples = MixedSamples
    /\ result.err = "NotImplementedError"

LowestFailed == CHOOSE d \in Dims : Failed(d) /\ \A e \in Dims : Failed(e) => d <= e

\* C19: when the constructor has raised and tasks have failed, in whatever
\* order the tasks ended, the error raised is that of the lowest failed
\* dimension, the join stopped there with only the lower dimensions retrieved,
\* and a task still pending can go on to its end.
C19_LowestFailedDimensionIsRaised ==
    (cpc = "raised" /\ \E d \in Dims : Failed(d)) =>
        /\ cerr = TaskOf(LowestFailed).err
        /\ join_i = LowestFailed
        /\ Len(distributions) = LowestFailed
        /\ \A d \in Dims : multiple_results[d].state = "pending" => ENABLED TaskRun(d)

\* C20: a KernelDensity description whose three dependency slots are None,
\* given as a tuple, as a list or omitted, is not refused as conditional: the
\* call returns a kernel-density distribution unless the density estimate
\* itself rejects the data.
C20_UnconditionalKernelDensityIsFitted ==
    (Called /\ NameOf(kwargs) = "KernelDensity" /\ DependentSlots = {}) =>
        /\ result.err \in {"none", "ValueError"}
        /\ result.err = "none" => result.ret.distribution.family = "KernelDensity"

====
